---- MODULE Spec2Model ----
(***************************************************************************)
(* dirtree: DirTreeGenerator of src/src/index.ts.                          *)
(*                                                                         *)
(* A string is a sequence of one-character strings.  The rendered tree is  *)
(* a sequence of lines; a line is a record of the pieces the code          *)
(* concatenates (prefix segments, connector, icon, name), the trailing     *)
(* line feed being implied by the line boundary.  The box-drawing pieces   *)
(* are written in ASCII: "L-- " for the last-child connector, "|-- " for   *)
(* the other connector, "|   " for the vertical continuation, "[D] " and   *)
(* "[F] " for the directory and file icons.                                *)
(***************************************************************************)
EXTENDS Integers, Sequences, FiniteSets, TLC

VARIABLES
    pc,              \* position of the run inside init()
    disk,            \* the directory structure under the root path
    ignoreFile,      \* .dirtree.ignore: whether it exists, and its content
    writable,        \* whether fs.writeFile succeeds in the root directory
    ignorePatterns,  \* this.ignorePatterns
    tree,            \* the value returned by generateTree('.')
    outputFile,      \* directory-tree.txt: whether it exists, and its content
    exitCode,        \* the exit status of the process
    log,             \* the last console message of init()
    mPattern,        \* matcher harness: the rule under test
    mRegex,          \* matcher harness: value or exception of createRegexFromPattern
    mName,           \* matcher harness: the candidate name
    mResult,         \* matcher harness: regex.test(name)
    stack,           \* walker: the chain of suspended generateTree calls
    returned         \* walker: value returned by the outermost call

vars == <<pc, disk, ignoreFile, writable, ignorePatterns, tree, outputFile,
          exitCode, log, mPattern, mRegex, mName, mResult, stack, returned>>

-----------------------------------------------------------------------------
(* Bounds of the model *)

MaxPatternLen == 3
MaxNameLen == 3

-----------------------------------------------------------------------------
(* Strings *)

LF == "\n"
Backslash == "\\"

Last(s) == s[Len(s)]
Front(s) == SubSeq(s, 1, Len(s) - 1)

RECURSIVE Strings(_, _)
\* all strings over alphabet of length 0..n
Strings(alphabet, n) ==
    IF n = 0 THEN {<<>>}
    ELSE LET shorter == Strings(alphabet, n - 1)
         IN  shorter \cup {Append(s, c) : s \in shorter, c \in alphabet}

RECURSIVE replaceAll(_, _, _)
\* String.prototype.replace with a global single-character regex
replaceAll(s, ch, replacement) ==
    IF s = <<>> THEN <<>>
    ELSE (IF Head(s) = ch THEN replacement ELSE <<Head(s)>>)
         \o replaceAll(Tail(s), ch, replacement)

-----------------------------------------------------------------------------
(* RegExp, restricted to the sources createRegexFromPattern can produce    *)
(* from the model's alphabet: letters, '.', '*', '?', '+', '[', and the     *)
(* other characters below, none of which is ']', '(', ')', '{', '}', '|',  *)
(* '^', '$' or a backslash.                                                *)

\* the exception new RegExp throws, as a value
SyntaxError == [threw |-> TRUE, terms |-> <<>>]

\* characters the regular expression '.' does not match (no s flag)
LineTerminators == {LF, "\r"}

Quantifiers == {"*", "+"}

RECURSIVE ParseTerms(_, _, _)
\* the terms of source[i..Len-1], appended to acc; SyntaxError when the
\* source is not a regular expression
ParseTerms(source, i, acc) ==
    IF i > Len(source) - 1 THEN [threw |-> FALSE, terms |-> acc]
    ELSE LET c == source[i] IN
         CASE c = Backslash ->
                \* identity escape: the next character, literally
                ParseTerms(source, i + 2,
                           Append(acc, [kind |-> "lit", ch |-> source[i + 1], quant |-> "1"]))
           [] c = "." ->
                ParseTerms(source, i + 1,
                           Append(acc, [kind |-> "any", ch |-> ".", quant |-> "1"]))
           [] c \in Quantifiers ->
                \* "Nothing to repeat": after the ^ assertion or a quantifier
                IF acc = <<>> \/ Last(acc).quant # "1" THEN SyntaxError
                ELSE ParseTerms(source, i + 1,
                                Append(Front(acc), [Last(acc) EXCEPT !.quant = c]))
           [] c = "[" ->
                \* "Unterminated character class": the alphabet has no ']'
                SyntaxError
           [] OTHER ->
                ParseTerms(source, i + 1,
                           Append(acc, [kind |-> "lit", ch |-> c, quant |-> "1"]))

\* new RegExp(source) for a source of the form ^...$
RegExp(source) == ParseTerms(source, 2, <<>>)

AtomMatches(term, c) ==
    IF term.kind = "any" THEN c \notin LineTerminators ELSE c = term.ch

RECURSIVE MatchFrom(_, _, _, _)
\* whether terms[i..] match exactly s[j..] (the source is anchored by ^ and
\* $, and carries no m flag)
MatchFrom(terms, i, s, j) ==
    IF i > Len(terms) THEN j > Len(s)
    ELSE LET t == terms[i] IN
         CASE t.quant = "1" ->
                j <= Len(s) /\ AtomMatches(t, s[j]) /\ MatchFrom(terms, i + 1, s, j + 1)
           [] t.quant = "*" ->
                \/ MatchFrom(terms, i + 1, s, j)
                \/ j <= Len(s) /\ AtomMatches(t, s[j]) /\ MatchFrom(terms, i, s, j + 1)
           [] t.quant = "+" ->
                j <= Len(s) /\ AtomMatches(t, s[j])
                /\ (MatchFrom(terms, i + 1, s, j + 1) \/ MatchFrom(terms, i, s, j + 1))

\* RegExp.prototype.test (no g or y flag: stateless)
test(regex, s) == MatchFrom(regex.terms, 1, s, 1)

-----------------------------------------------------------------------------
(* Pattern matcher *)

\* the three replace calls, in the order of the code
escapePattern(pattern) ==
    replaceAll(replaceAll(replaceAll(pattern, ".", <<Backslash, ".">>),
                          "*", <<".", "*">>),
               "?", <<".">>)

createRegexFromPattern(pattern) ==
    RegExp(<<"^">> \o escapePattern(pattern) \o <<"$">>)

-----------------------------------------------------------------------------
(* Paths (POSIX separators; the root path is "." and names hold no "/").   *)
(* Where a path is handed to the file system it is a record of its text    *)
(* and of the directory node the text leads to on the disk, so that        *)
(* listing a directory does not walk the structure from the root again.   *)

Sep == "/"
RootText == <<".">>
RootPath == [text |-> RootText, node |-> 0]

\* path.join(dirPath, name): the joined path, normalised
join(dirPath, name) ==
    IF dirPath = RootText THEN name ELSE dirPath \o <<Sep>> \o name

\* path.basename: what follows the last separator
basename(p) ==
    LET seps == {i \in 1..Len(p) : p[i] = Sep}
    IN  IF seps = {} THEN p
        ELSE SubSeq(p, (CHOOSE i \in seps : \A j \in seps : j <= i) + 1, Len(p))

\* the variant with the ignore check switched off
shouldIgnoreDisabled(patterns, itemName, itemPath) == FALSE

shouldIgnore(patterns, itemName, itemPath) ==
    \E i \in 1..Len(patterns) :
        test(patterns[i], itemName) \/ test(patterns[i], basename(itemPath))

-----------------------------------------------------------------------------
(* Collation: String.prototype.localeCompare under the root collation, for *)
(* the characters of the model.  Strings are compared by the primary       *)
(* weights of their characters first (punctuation before digits before     *)
(* letters, case ignored) and, when those agree, by case (lower first).    *)

LowerCase == <<"a", "b", "c", "d", "e", "f", "g", "h", "i", "j", "k", "l", "m", "n", "o", "p", "q", "r", "s", "t", "u", "v", "w", "x", "y", "z">>
UpperCase == <<"A", "B", "C", "D", "E", "F", "G", "H", "I", "J", "K", "L", "M", "N", "O", "P", "Q", "R", "S", "T", "U", "V", "W", "X", "Y", "Z">>
PrimaryOrder == <<"_", "-", ".", "#", "+", "0", "1", "2", "3", "4", "5", "6", "7", "8", "9">> \o LowerCase

IndexOf(seq, c) == CHOOSE i \in 1..Len(seq) : seq[i] = c
IsUpper(c) == \E i \in 1..Len(UpperCase) : UpperCase[i] = c
toLowerCase(c) == IF IsUpper(c) THEN LowerCase[IndexOf(UpperCase, c)] ELSE c

primaryWeight(c) == IndexOf(PrimaryOrder, toLowerCase(c))
tertiaryWeight(c) == IF IsUpper(c) THEN 1 ELSE 0

primaryKey(s) == [i \in 1..Len(s) |-> primaryWeight(s[i])]
tertiaryKey(s) == [i \in 1..Len(s) |-> tertiaryWeight(s[i])]

\* lexicographic comparison of two sequences of weights: -1, 0 or 1
compareKeys(a, b) ==
    LET differ == {i \in 1..Len(a) : i > Len(b) \/ a[i] # b[i]}
    IN  IF differ = {}
        THEN (IF Len(a) < Len(b) THEN -1 ELSE 0)
        ELSE LET first == CHOOSE i \in differ : \A j \in differ : i <= j
             IN  IF first > Len(b) THEN 1
                 ELSE IF a[first] < b[first] THEN -1 ELSE 1

localeCompare(a, b) ==
    LET primary == compareKeys(primaryKey(a), primaryKey(b))
    IN  IF primary # 0 THEN primary
        ELSE compareKeys(tertiaryKey(a), tertiaryKey(b))

-----------------------------------------------------------------------------
(* The directory structure.  A disk is a graph: dirs maps a directory node *)
(* to whether it can be listed and to its entries in the order readdir     *)
(* returns them; a directory entry names the node it leads to.  Node 0 is  *)
(* the root path.                                                          *)

\* String.prototype.split with a one-character separator: the pieces
\* between consecutive separators
split(s, sepChar) ==
    LET seps == {i \in 1..Len(s) : s[i] = sepChar}
        \* the position of the k-th separator; 0 and Len(s) + 1 bound the string
        cutAt(k) == IF k = 0 THEN 0
                    ELSE IF k > Cardinality(seps) THEN Len(s) + 1
                    ELSE CHOOSE i \in seps : Cardinality({j \in seps : j < i}) = k - 1
    IN  [k \in 1..(Cardinality(seps) + 1) |-> SubSeq(s, cutAt(k - 1) + 1, cutAt(k) - 1)]

RECURSIVE walk(_, _, _)
\* the node a list of names leads to from node
walk(d, node, names) ==
    IF names = <<>> THEN node
    ELSE LET items == d.dirs[node].items
             k == CHOOSE i \in 1..Len(items) :
                      items[i].name = Head(names) /\ items[i].isDirectory
         IN  walk(d, items[k].node, Tail(names))

\* the node the text of a path leads to
resolve(d, text) ==
    IF text = RootText THEN 0 ELSE walk(d, 0, split(text, Sep))

\* fs.readdir(dirPath, { withFileTypes: true }): the entries, or an exception
readdir(d, dirPath) ==
    LET dir == d.dirs[dirPath.node]
    IN  IF dir.readable THEN [threw |-> FALSE, items |-> dir.items]
        ELSE [threw |-> TRUE, items |-> <<>>]

-----------------------------------------------------------------------------
(* Tree walker *)

MaxDepth == 50

LastConnector == "L-- "
MidConnector == "|-- "
LastIndent == "    "
MidIndent == "|   "
DirIcon == "[D] "
FileIcon == "[F] "
NoIcon == ""
MaxDepthReached == <<"[MAX DEPTH REACHED]">>
CannotRead == <<"[ERROR: Cannot read directory]">>

\* the ceiling applied one level early, and not applied at all
depthExceededOffByOne(depth) == depth >= MaxDepth
depthExceededNever(depth) == FALSE

depthExceeded(depth) == depth > MaxDepth

\* no chain of calls is longer than this (the root call and MaxDepth + 1 below it)
StackCap == MaxDepth + 2

\* the loop that fills filteredItems: every listed item with its joined path,
\* the ignored ones skipped
filterItems(patterns, dirPath, items) ==
    LET listed == [i \in 1..Len(items) |->
                      [name |-> items[i].name,
                       path |-> [text |-> join(dirPath.text, items[i].name),
                                 node |-> items[i].node],
                       isDirectory |-> items[i].isDirectory]]
    IN  SelectSeq(listed, LAMBDA item : ~shouldIgnore(patterns, item.name, item.path.text))

\* the comparison function handed to sort
compareItems(a, b) ==
    IF a.isDirectory /\ ~b.isDirectory THEN -1
    ELSE IF ~a.isDirectory /\ b.isDirectory THEN 1
    ELSE localeCompare(a.name, b.name)

\* the items left in listing order
sortItemsOmitted(items) == items

\* Array.prototype.sort with compareItems.  The sort is stable: an item
\* comes after the items that compare below it and after the items that
\* compare equal to it and were listed before it.
sortItems(items) ==
    LET n == Len(items)
        precedes(j, i) ==
            LET order == compareItems(items[j], items[i])
            IN  order < 0 \/ (order = 0 /\ j < i)
        rank(i) == Cardinality({j \in 1..n : precedes(j, i)}) + 1
    IN  [k \in 1..n |-> items[CHOOSE i \in 1..n : rank(i) = k]]

connector(isLastItem) == IF isLastItem THEN LastConnector ELSE MidConnector
icon(isDirectory) == IF isDirectory THEN DirIcon ELSE FileIcon
\* the continuation bar never drawn
nextPrefixAlwaysBlank(prefix, isLastItem) == Append(prefix, LastIndent)

nextPrefix(prefix, isLastItem) ==
    Append(prefix, IF isLastItem THEN LastIndent ELSE MidIndent)

\* prefix + connector + icon + item.name + '\n'
itemLine(prefix, item, isLastItem) ==
    [prefix |-> prefix, connector |-> connector(isLastItem),
     icon |-> icon(item.isDirectory), text |-> item.name]

\* prefix + '└── ' + marker + '\n'
markerLine(prefix, marker) ==
    [prefix |-> prefix, connector |-> LastConnector, icon |-> NoIcon, text |-> marker]

\* an empty catch block
onListFailureSilent(result, prefix) == result

\* the catch block: result += prefix + '└── [ERROR: Cannot read directory]\n'
onListFailure(result, prefix) == Append(result, markerLine(prefix, CannotRead))

RECURSIVE generateTree(_, _, _, _, _, _)
RECURSIVE renderItems(_, _, _, _, _, _)

\* the rendering loop over filteredItems, from index i
renderItems(d, patterns, filteredItems, i, prefix, depth) ==
    IF i > Len(filteredItems) THEN <<>>
    ELSE LET item == filteredItems[i]
             isLastItem == i = Len(filteredItems)
         IN  <<itemLine(prefix, item, isLastItem)>>
             \o (IF item.isDirectory
                 THEN generateTree(d, patterns, item.path,
                                   nextPrefix(prefix, isLastItem), isLastItem, depth + 1)
                 ELSE <<>>)
             \o renderItems(d, patterns, filteredItems, i + 1, prefix, depth)

generateTree(d, patterns, dirPath, prefix, isLast, depth) ==
    IF depthExceeded(depth) THEN <<markerLine(prefix, MaxDepthReached)>>
    ELSE LET listing == readdir(d, dirPath)
         IN  IF listing.threw THEN onListFailure(<<>>, prefix)
             ELSE renderItems(d, patterns,
                              sortItems(filterItems(patterns, dirPath, listing.items)),
                              1, prefix, depth)

-----------------------------------------------------------------------------
(* Files of the run *)

ignoreFileName == <<".", "d", "i", "r", "t", "r", "e", "e", ".", "i", "g", "n", "o", "r", "e">>
outputFileName == <<"d", "i", "r", "e", "c", "t", "o", "r", "y", "-", "t", "r", "e", "e", ".", "t", "x", "t">>

defaultIgnores ==
    << <<"n", "o", "d", "e", "_", "m", "o", "d", "u", "l", "e", "s">>,
       <<".", "g", "i", "t">>,
       <<".", "s", "v", "n">>,
       <<".", "h", "g">>,
       <<"d", "i", "s", "t">>,
       <<"b", "u", "i", "l", "d">>,
       <<"o", "u", "t">>,
       <<"t", "a", "r", "g", "e", "t">>,
       <<".", "n", "e", "x", "t">>,
       <<".", "n", "u", "x", "t">>,
       <<"_", "_", "p", "y", "c", "a", "c", "h", "e", "_", "_">>,
       <<".", "p", "y", "t", "e", "s", "t", "_", "c", "a", "c", "h", "e">>,
       <<"v", "e", "n", "v">>,
       <<"e", "n", "v">>,
       <<".", "v", "e", "n", "v">>,
       <<".", "e", "n", "v">>,
       <<"v", "e", "n", "d", "o", "r">>,
       <<".", "i", "d", "e", "a">>,
       <<".", "v", "s", "c", "o", "d", "e">>,
       <<"*", ".", "l", "o", "g">>,
       <<".", "D", "S", "_", "S", "t", "o", "r", "e">>,
       <<"T", "h", "u", "m", "b", "s", ".", "d", "b">>,
       <<"c", "o", "v", "e", "r", "a", "g", "e">>,
       <<".", "n", "y", "c", "_", "o", "u", "t", "p", "u", "t">>,
       <<"t", "m", "p">>,
       <<"t", "e", "m", "p">>,
       <<".", "c", "a", "c", "h", "e">>,
       <<".", "p", "a", "r", "c", "e", "l", "-", "c", "a", "c", "h", "e">> >>

WhiteSpace == {" ", "\t", "\r", LF}

RECURSIVE trimStart(_)
trimStart(s) ==
    IF s # <<>> /\ Head(s) \in WhiteSpace THEN trimStart(Tail(s)) ELSE s

RECURSIVE trimEnd(_)
trimEnd(s) ==
    IF s # <<>> /\ Last(s) \in WhiteSpace THEN trimEnd(Front(s)) ELSE s

\* String.prototype.trim
trim(s) == trimEnd(trimStart(s))

RECURSIVE joinRange(_, _, _, _)
\* strings[from..to] joined by sepChar (halving the range)
joinRange(strings, sepChar, from, to) ==
    IF from > to THEN <<>>
    ELSE IF from = to THEN strings[from]
    ELSE LET mid == (from + to) \div 2
         IN  joinRange(strings, sepChar, from, mid) \o <<sepChar>>
             \o joinRange(strings, sepChar, mid + 1, to)

\* Array.prototype.join with a one-character separator
joinLines(strings, sepChar) == joinRange(strings, sepChar, 1, Len(strings))

mapTrim(strings) == [i \in 1..Len(strings) |-> trim(strings[i])]

\* line => line && !line.startsWith('#')
isRuleLine(line) == line # <<>> /\ Head(line) # "#"

filterRuleLines(lines) == SelectSeq(lines, isRuleLine)

\* p => p
filterNonEmpty(parts) == SelectSeq(parts, LAMBDA part : part # <<>>)

\* the lines of the ignore file that loadIgnorePatterns compiles
ruleLines(content) == filterRuleLines(mapTrim(split(content, LF)))

\* a file added to the root directory by fs.writeFile (listed last)
withRootFile(d, name) ==
    IF \E i \in 1..Len(d.dirs[0].items) : d.dirs[0].items[i].name = name THEN d
    ELSE [d EXCEPT !.dirs[0].items =
              Append(@, [name |-> name, isDirectory |-> FALSE, node |-> 0])]

\* createDefaultIgnoreFile: the content written
defaultIgnoreContent == joinLines(defaultIgnores, LF) \o <<LF>>

\* the rule list made of the answer to the custom-patterns prompt
customPatternList(customPatterns) ==
    IF customPatterns # <<>>
    THEN filterNonEmpty(mapTrim(split(customPatterns, ",")))
    ELSE <<>>

\* createIgnoreFile(patterns): the content written
customIgnoreContent(patterns) ==
    IF Len(patterns) > 0 THEN joinLines(patterns, LF) \o <<LF>> ELSE <<>>

-----------------------------------------------------------------------------
(* Inputs: directory structures *)

MaxEntries == 3
MaxWalkEntries == 2
ChainSlack == 1

NamePool == {<<"a">>, <<"B">>, <<"a", ".", "c">>}
Kinds == {"file", "dir", "locked"}

\* a shape lists the entries below the root in the order readdir returns
\* them; an entry names its parent (0: the root, i: the i-th entry)
validEntry(shape, e) ==
    /\ e.parent = 0 \/ shape[e.parent].kind # "file"
    /\ shape = <<>> \/ e.parent >= Last(shape).parent
    /\ \A i \in 1..Len(shape) : shape[i].parent = e.parent => shape[i].name # e.name

RECURSIVE Shapes(_)
\* the shapes of at most n entries
Shapes(n) ==
    IF n = 0 THEN {<<>>}
    ELSE LET smaller == Shapes(n - 1)
         IN  smaller \cup
             {Append(sh, e) : <<sh, e>> \in
                 {pair \in {t \in smaller : Len(t) = n - 1}
                           \X [parent : 0..(n - 1), kind : Kinds, name : NamePool] :
                      validEntry(pair[1], pair[2])}}

RECURSIVE itemsOf(_, _, _)
\* the entries of shape[i..] whose parent is node, as readdir items
itemsOf(shape, node, i) ==
    IF i > Len(shape) THEN <<>>
    ELSE (IF shape[i].parent = node
          THEN <<[name |-> shape[i].name, isDirectory |-> shape[i].kind # "file",
                  node |-> i]>>
          ELSE <<>>)
         \o itemsOf(shape, node, i + 1)

mkDisk(shape, rootReadable) ==
    [dirs |-> [node \in {0} \cup {i \in 1..Len(shape) : shape[i].kind # "file"} |->
                 [readable |-> IF node = 0 THEN rootReadable ELSE shape[node].kind = "dir",
                  items |-> itemsOf(shape, node, 1)]]]

\* len nested single-child directories below the root, a file in the last
chainDisk(len) ==
    [dirs |-> [node \in 0..len |->
                 [readable |-> TRUE,
                  items |-> IF node < len
                            THEN <<[name |-> <<"a">>, isDirectory |-> TRUE, node |-> node + 1]>>
                            ELSE <<[name |-> <<"B">>, isDirectory |-> FALSE, node |-> 0]>>]]]

\* a directory that is reachable again from itself (it contains itself under
\* the name "a", beside a file)
loopDisk ==
    [dirs |-> [node \in 0..1 |->
                 [readable |-> TRUE,
                  items |-> IF node = 0
                            THEN <<[name |-> <<"a">>, isDirectory |-> TRUE, node |-> 1]>>
                            ELSE <<[name |-> <<"B">>, isDirectory |-> FALSE, node |-> 0],
                                   [name |-> <<"a">>, isDirectory |-> TRUE, node |-> 1]>>]]]

\* the directory setupTestEnvironment creates
fixtureShape ==
    << [parent |-> 0, kind |-> "dir", name |-> <<"s", "r", "c">>],
       [parent |-> 0, kind |-> "dir", name |-> <<"n", "o", "d", "e", "_", "m", "o", "d", "u", "l", "e", "s">>],
       [parent |-> 0, kind |-> "dir", name |-> <<"d", "i", "s", "t">>],
       [parent |-> 0, kind |-> "file", name |-> <<"p", "a", "c", "k", "a", "g", "e", ".", "j", "s", "o", "n">>],
       [parent |-> 0, kind |-> "file", name |-> <<"R", "E", "A", "D", "M", "E", ".", "m", "d">>],
       [parent |-> 0, kind |-> "file", name |-> <<"t", "e", "s", "t", ".", "l", "o", "g">>],
       [parent |-> 1, kind |-> "file", name |-> <<"i", "n", "d", "e", "x", ".", "t", "s">>],
       [parent |-> 2, kind |-> "file", name |-> <<"s", "o", "m", "e", "-", "p", "a", "c", "k", "a", "g", "e", ".", "j", "s">>] >>
fixtureDisk == mkDisk(fixtureShape, TRUE)

\* a deeper structure: four levels, a directory that cannot be listed
nestedShape ==
    << [parent |-> 0, kind |-> "dir", name |-> <<"a", ".", "c">>],
       [parent |-> 0, kind |-> "dir", name |-> <<"a">>],
       [parent |-> 1, kind |-> "dir", name |-> <<"B">>],
       [parent |-> 1, kind |-> "file", name |-> <<"a">>],
       [parent |-> 2, kind |-> "locked", name |-> <<"a", ".", "c">>],
       [parent |-> 2, kind |-> "file", name |-> <<"B">>],
       [parent |-> 3, kind |-> "dir", name |-> <<"a", ".", "c">>],
       [parent |-> 3, kind |-> "dir", name |-> <<"a">>],
       [parent |-> 5, kind |-> "file", name |-> <<"B">>],
       [parent |-> 7, kind |-> "file", name |-> <<"a">>] >>
nestedDisk == mkDisk(nestedShape, TRUE)

ChainDisks == {chainDisk(len) : len \in (MaxDepth - 1)..(MaxDepth + 1 + ChainSlack)}
DeepDisks == ChainDisks \cup {loopDisk}
SmallDisks == {mkDisk(shape, TRUE) : shape \in Shapes(MaxEntries)}
TinyDisks == {mkDisk(shape, readable) : shape \in Shapes(1), readable \in BOOLEAN}

-----------------------------------------------------------------------------
(* Inputs: ignore files and prompt answers *)

MaxLines == 2

\* lines an ignore file is made of
LinePool ==
    { <<>>, <<" ">>, <<"#", "a">>, <<" ", "a", " ">>, <<"a">>, <<"B">>,
      <<"*", ".", "c">>, <<"?">>, <<"a", "+">>, <<"[">> }

RECURSIVE Texts(_)
\* the texts of at most n lines of LinePool, joined by line feeds
Texts(n) ==
    IF n = 0 THEN {<<>>}
    ELSE Texts(n - 1) \cup {line \o <<LF>> \o text : line \in LinePool, text \in Texts(n - 1)}

fileOf(content) == [exists |-> TRUE, readable |-> TRUE, content |-> content]

\* the ignore files of the runs over the small and deep directory structures
WalkIgnoreFiles ==
    { fileOf(<<>>), fileOf(<<"a", LF>>), fileOf(<<"*", ".", "c", LF, "B", LF>>) }

\* the file testTreeGeneration writes
fixtureIgnoreFile == fileOf(<<"n", "o", "d", "e", "_", "m", "o", "d", "u", "l", "e", "s", LF, "*", ".", "l", "o", "g", LF>>)

RunIgnoreFiles ==
    {fileOf(content) : content \in Texts(MaxLines)}
    \cup {[exists |-> TRUE, readable |-> FALSE, content |-> <<"a", LF>>],
          [exists |-> FALSE, readable |-> FALSE, content |-> <<>>]}

CustomAnswers == { <<>>, <<"a">>, <<" ", "a", ",", ",", "*", ".", "c", " ">>, <<"[">> }

\* the situations a run starts in
Situations ==
    [disk : SmallDisks \cup {nestedDisk}, ignoreFile : WalkIgnoreFiles, writable : {TRUE}]
    \cup [disk : {fixtureDisk}, ignoreFile : {fixtureIgnoreFile}, writable : {TRUE}]
    \cup [disk : TinyDisks, ignoreFile : RunIgnoreFiles, writable : BOOLEAN]

-----------------------------------------------------------------------------
(* init() *)

SuccessMessage == "Directory tree generated successfully"
ErrorMessage == "Error generating directory tree"
NoMessage == ""

NotReturned == [done |-> FALSE, value |-> <<>>]
NoFile == [exists |-> FALSE, readable |-> FALSE, content |-> <<>>]
rootLine == [prefix |-> <<>>, connector |-> "", icon |-> DirIcon, text |-> <<".">>]

\* the catch block of init: the error is logged and the process exits with 1
initFails ==
    /\ log' = ErrorMessage
    /\ exitCode' = 1
    /\ pc' = "exited"

\* fs.writeFile(this.ignoreFile, content) inside checkAndCreateIgnoreFile
writeIgnoreFile(content) ==
    IF writable
    THEN /\ ignoreFile' = [exists |-> TRUE, readable |-> TRUE, content |-> content]
         /\ disk' = withRootFile(disk, ignoreFileName)
         /\ pc' = "loadIgnorePatterns"
         /\ UNCHANGED <<log, exitCode>>
    ELSE /\ initFails
         /\ UNCHANGED <<ignoreFile, disk>>

checkAndCreateIgnoreFile ==
    /\ pc = "checkAndCreateIgnoreFile"
    /\ IF ignoreFile.exists
       THEN /\ pc' = "loadIgnorePatterns"
            /\ UNCHANGED <<ignoreFile, disk, log, exitCode>>
       ELSE \E createIgnoreFile \in BOOLEAN :
                IF createIgnoreFile
                THEN writeIgnoreFile(defaultIgnoreContent)
                ELSE \E customPatterns \in CustomAnswers :
                         writeIgnoreFile(customIgnoreContent(customPatternList(customPatterns)))
    /\ UNCHANGED <<writable, ignorePatterns, tree, outputFile,
                   mPattern, mRegex, mName, mResult, stack, returned>>

\* the value loadIgnorePatterns assigns to this.ignorePatterns
loadedPatterns(file) ==
    IF ~file.readable THEN <<>>
    ELSE LET rules == ruleLines(file.content)
             compiled == [i \in 1..Len(rules) |-> createRegexFromPattern(rules[i])]
         IN  IF \E i \in 1..Len(rules) : compiled[i].threw THEN <<>>
             ELSE compiled

loadIgnorePatterns ==
    /\ pc = "loadIgnorePatterns"
    /\ ignorePatterns' = loadedPatterns(ignoreFile)
    /\ pc' = "generateTree"
    /\ UNCHANGED <<disk, ignoreFile, writable, tree, outputFile, exitCode, log,
                   mPattern, mRegex, mName, mResult, stack, returned>>

\* generateTree with a failure to list the root thrown to init
callGenerateTreeRootFatal ==
    /\ pc = "generateTree"
    /\ IF readdir(disk, RootPath).threw
       THEN initFails /\ UNCHANGED tree
       ELSE /\ tree' = generateTree(disk, ignorePatterns, RootPath, <<>>, TRUE, 0)
            /\ pc' = "writeTreeToFile"
            /\ UNCHANGED <<exitCode, log>>
    /\ UNCHANGED <<disk, ignoreFile, writable, ignorePatterns, outputFile,
                   mPattern, mRegex, mName, mResult, stack, returned>>

\* const tree = await this.generateTree('.')
callGenerateTree ==
    /\ pc = "generateTree"
    /\ tree' = generateTree(disk, ignorePatterns, RootPath, <<>>, TRUE, 0)
    /\ pc' = "writeTreeToFile"
    /\ UNCHANGED <<disk, ignoreFile, writable, ignorePatterns, outputFile, exitCode,
                   log, mPattern, mRegex, mName, mResult, stack, returned>>

writeTreeToFile ==
    /\ pc = "writeTreeToFile"
    /\ IF writable
       THEN /\ outputFile' = [exists |-> TRUE, readable |-> TRUE,
                              content |-> <<rootLine>> \o tree]
            /\ disk' = withRootFile(disk, outputFileName)
            /\ log' = SuccessMessage
            /\ pc' = "done"
            /\ UNCHANGED exitCode
       ELSE /\ initFails
            /\ UNCHANGED <<outputFile, disk>>
    /\ UNCHANGED <<ignoreFile, writable, ignorePatterns, tree,
                   mPattern, mRegex, mName, mResult, stack, returned>>

Init ==
    /\ \E situation \in Situations :
          /\ disk = IF situation.ignoreFile.exists
                    THEN withRootFile(situation.disk, ignoreFileName)
                    ELSE situation.disk
          /\ ignoreFile = situation.ignoreFile
          /\ writable = situation.writable
    /\ pc = "checkAndCreateIgnoreFile"
    /\ ignorePatterns = <<>>
    /\ tree = <<>>
    /\ outputFile = NoFile
    /\ exitCode = 0
    /\ log = NoMessage
    /\ mPattern = <<>>
    /\ mRegex = SyntaxError
    /\ mName = <<>>
    /\ mResult = FALSE
    /\ stack = <<>>
    /\ returned = NotReturned

Next ==
    \/ checkAndCreateIgnoreFile
    \/ loadIgnorePatterns
    \/ callGenerateTree
    \/ writeTreeToFile

Spec == Init /\ [][Next]_vars

-----------------------------------------------------------------------------
(* The matcher on its own, as testIgnorePatternMatching drives it: a rule  *)
(* is compiled, installed as the only ignore pattern, and shouldIgnore is  *)
(* asked about a name.                                                     *)

PatternChars == {"a", ".", "*", "?", "+", "["}
NameChars == {"a", ".", "+", LF}

ExamplePatterns == { <<"n", "o", "d", "e", "_", "m", "o", "d", "u", "l", "e", "s">>,
                     <<"*", ".", "l", "o", "g">> }
ExampleNames == { <<"n", "o", "d", "e", "_", "m", "o", "d", "u", "l", "e", "s">>,
                  <<"n", "o", "d", "e", "_", "m", "o", "d", "u", "l", "e", "s", "2">>,
                  <<"m", "y", "_", "n", "o", "d", "e", "_", "m", "o", "d", "u", "l", "e", "s">>,
                  <<"t", "e", "s", "t", ".", "l", "o", "g">>,
                  <<"a", ".", "b", ".", "l", "o", "g">>,
                  <<"l", "o", "g">>,
                  <<"t", "e", "s", "t", ".", "l", "o", "g", "x">>,
                  <<"R", "E", "A", "D", "M", "E", ".", "m", "d">> }

Patterns == (Strings(PatternChars, MaxPatternLen) \ {<<>>}) \cup ExamplePatterns
Names == (Strings(NameChars, MaxNameLen) \ {<<>>}) \cup ExampleNames

InitMatch ==
    /\ pc = "createRegexFromPattern"
    /\ mPattern \in Patterns
    /\ mRegex = SyntaxError
    /\ mName = <<>>
    /\ mResult = FALSE
    /\ ignorePatterns = <<>>
    /\ disk = mkDisk(<<>>, TRUE)
    /\ ignoreFile = NoFile
    /\ writable = TRUE
    /\ tree = <<>>
    /\ outputFile = NoFile
    /\ exitCode = 0
    /\ log = NoMessage
    /\ stack = <<>>
    /\ returned = NotReturned

\* the rule is compiled; a compiled rule becomes generator.ignorePatterns
compilePattern ==
    /\ pc = "createRegexFromPattern"
    /\ mRegex' = createRegexFromPattern(mPattern)
    /\ IF mRegex'.threw
       THEN pc' = "threw" /\ UNCHANGED ignorePatterns
       ELSE pc' = "shouldIgnore" /\ ignorePatterns' = <<mRegex'>>
    /\ UNCHANGED <<disk, ignoreFile, writable, tree, outputFile, exitCode, log,
                   mPattern, mName, mResult, stack, returned>>

\* generator.shouldIgnore(name, './' + name)
askShouldIgnore ==
    /\ pc = "shouldIgnore"
    /\ \E name \in Names :
          /\ mName' = name
          /\ mResult' = shouldIgnore(ignorePatterns, name, <<".", Sep>> \o name)
    /\ pc' = "tested"
    /\ UNCHANGED <<disk, ignoreFile, writable, ignorePatterns, tree, outputFile,
                   exitCode, log, mPattern, mRegex, stack, returned>>

NextMatch == compilePattern \/ askShouldIgnore

SpecMatch == InitMatch /\ [][NextMatch]_vars

-----------------------------------------------------------------------------
(* generateTree call by call: stack holds the suspended calls, the running *)
(* call last.  A call is entered (depth check, readdir, filter, sort),     *)
(* renders its items one by one, awaiting the call it makes for a          *)
(* directory, and returns its result to the call that awaits it.           *)

newCall(dirPath, prefix, isLast, depth) ==
    [dirPath |-> dirPath, prefix |-> prefix, isLast |-> isLast, depth |-> depth,
     phase |-> "enter", filteredItems |-> <<>>, i |-> 1, result |-> <<>>]

\* the running call returns value: to the caller of generateTree, or to the
\* call that awaits it, which appends it to its result and moves to its next item
returnValue(value) ==
    IF Len(stack) = 1
    THEN /\ stack' = <<>>
         /\ returned' = [done |-> TRUE, value |-> value]
    ELSE /\ stack' = Front(Front(stack)) \o
                        <<[stack[Len(stack) - 1] EXCEPT
                              !.result = @ \o value, !.i = @ + 1]>>
         /\ UNCHANGED returned

\* the depth check, readdir, the filter loop and the sort; each value is
\* named by a quantifier over a one-element set, which computes it once
enterCall ==
    /\ stack # <<>>
    /\ Last(stack).phase = "enter"
    /\ \E call \in {Last(stack)} :
       IF depthExceeded(call.depth)
       THEN returnValue(<<markerLine(call.prefix, MaxDepthReached)>>)
       ELSE \E listing \in {readdir(disk, call.dirPath)} :
            IF listing.threw
            THEN returnValue(onListFailure(call.result, call.prefix))
            ELSE \E filteredItems \in {filterItems(ignorePatterns, call.dirPath,
                                                   listing.items)} :
                 \E sortedItems \in {sortItems(filteredItems)} :
                    /\ stack' = Front(stack) \o
                                  <<[call EXCEPT !.phase = "loop",
                                                 !.filteredItems = sortedItems]>>
                    /\ UNCHANGED returned
    /\ UNCHANGED <<pc, disk, ignoreFile, writable, ignorePatterns, tree, outputFile,
                   exitCode, log, mPattern, mRegex, mName, mResult>>

renderItem ==
    /\ stack # <<>>
    /\ Last(stack).phase = "loop"
    /\ Last(stack).i <= Len(Last(stack).filteredItems)
    /\ Len(stack) <= StackCap
    /\ LET call == Last(stack)
           item == call.filteredItems[call.i]
           isLastItem == call.i = Len(call.filteredItems)
           line == itemLine(call.prefix, item, isLastItem)
       IN  IF item.isDirectory
           THEN stack' = Front(stack)
                         \o <<[call EXCEPT !.result = Append(@, line)]>>
                         \o <<newCall(item.path, nextPrefix(call.prefix, isLastItem),
                                      isLastItem, call.depth + 1)>>
           ELSE stack' = Front(stack)
                         \o <<[call EXCEPT !.result = Append(@, line), !.i = @ + 1]>>
    /\ UNCHANGED <<pc, disk, ignoreFile, writable, ignorePatterns, tree, outputFile,
                   exitCode, log, mPattern, mRegex, mName, mResult, returned>>

returnResult ==
    /\ stack # <<>>
    /\ Last(stack).phase = "loop"
    /\ Last(stack).i > Len(Last(stack).filteredItems)
    /\ returnValue(Last(stack).result)
    /\ UNCHANGED <<pc, disk, ignoreFile, writable, ignorePatterns, tree, outputFile,
                   exitCode, log, mPattern, mRegex, mName, mResult>>

WalkDisks == DeepDisks \cup {mkDisk(shape, TRUE) : shape \in Shapes(MaxWalkEntries)}
                       \cup {nestedDisk}

InitWalk ==
    /\ pc = "generateTree"
    /\ disk \in WalkDisks
    /\ \E file \in WalkIgnoreFiles :
          /\ ignoreFile = file
          /\ ignorePatterns = loadedPatterns(file)
    /\ stack = <<newCall(RootPath, <<>>, TRUE, 0)>>
    /\ returned = NotReturned
    /\ writable = TRUE
    /\ tree = <<>>
    /\ outputFile = NoFile
    /\ exitCode = 0
    /\ log = NoMessage
    /\ mPattern = <<>>
    /\ mRegex = SyntaxError
    /\ mName = <<>>
    /\ mResult = FALSE

NextWalk == enterCall \/ renderItem \/ returnResult

\* a call that can take its next step takes it: the event loop runs every
\* continuation whose awaited promise has settled
SpecWalk == InitWalk /\ [][NextWalk]_vars /\ WF_vars(NextWalk)

-----------------------------------------------------------------------------
(* Reading a rendered tree *)

isItem(line) == line.icon # NoIcon
isMarker(line, marker) == line.icon = NoIcon /\ line.text = marker
itemLines(lines) == {i \in 1..Len(lines) : isItem(lines[i])}

Max(S) == CHOOSE x \in S : \A y \in S : y <= x

\* the line of the directory that the i-th line was rendered inside (0: the root)
parentOf(lines, i) ==
    LET above == {j \in 1..(i - 1) : /\ isItem(lines[j])
                                     /\ Len(lines[j].prefix) + 1 = Len(lines[i].prefix)}
    IN  IF above = {} THEN 0 ELSE Max(above)

RECURSIVE pathOf(_, _)
\* the path of the entry the i-th line stands for
pathOf(lines, i) ==
    IF parentOf(lines, i) = 0 THEN lines[i].text
    ELSE pathOf(lines, parentOf(lines, i)) \o <<Sep>> \o lines[i].text

siblings(lines, i, j) ==
    /\ isItem(lines[i]) /\ isItem(lines[j])
    /\ Len(lines[i].prefix) = Len(lines[j].prefix)
    /\ parentOf(lines, i) = parentOf(lines, j)

(* The entries of a directory structure *)

RECURSIVE entriesUnder(_, _, _, _)
\* the entries at most fuel levels below the directory node, whose path is dirPath
entriesUnder(d, node, dirPath, fuel) ==
    IF fuel = 0 THEN {}
    ELSE UNION { {[path |-> join(dirPath, item.name), isDirectory |-> item.isDirectory]}
                 \cup (IF item.isDirectory
                       THEN entriesUnder(d, item.node, join(dirPath, item.name), fuel - 1)
                       ELSE {})
                 : item \in {d.dirs[node].items[k] : k \in 1..Len(d.dirs[node].items)} }

allEntries(d) == entriesUnder(d, 0, RootText, MaxDepth + 2)

matchedByRule(patterns, name) == \E i \in 1..Len(patterns) : test(patterns[i], name)

\* no name on the path is matched by a rule, every directory above the entry
\* can be listed, and the directory holding it is within the depth ceiling
visible(d, patterns, path) ==
    LET names == split(path, Sep) IN
    /\ \A k \in 1..Len(names) : ~matchedByRule(patterns, names[k])
    /\ \A k \in 0..(Len(names) - 1) : d.dirs[walk(d, 0, SubSeq(names, 1, k))].readable
    /\ Len(names) <= MaxDepth + 1

Generated == pc = "writeTreeToFile"

-----------------------------------------------------------------------------
\* C1: generateTree renders a line for an entry if and only if neither its
\* name nor the name of one of its ancestors below the root is matched by a
\* rule (the ancestors being listable and within the depth ceiling), each
\* such entry once; nothing below an ignored directory is rendered.
C1_RenderedIffNotIgnored ==
    Generated =>
        LET shown == {[path |-> pathOf(tree, i), isDirectory |-> tree[i].icon = DirIcon]
                      : i \in itemLines(tree)}
        IN  /\ shown = {e \in allEntries(disk) : visible(disk, ignorePatterns, e.path)}
            /\ Cardinality(shown) = Cardinality(itemLines(tree))

\* a rule list that hides a directory with an entry inside whose own name no
\* rule matches, beside entries that are rendered
C1_Witness ==
    /\ Generated
    /\ tree # <<>>
    /\ \E e \in allEntries(disk) :
          LET names == split(e.path, Sep) IN
          /\ Len(names) >= 2
          /\ matchedByRule(ignorePatterns, names[1])
          /\ ~matchedByRule(ignorePatterns, Last(names))

\* C2: among the rendered children of one directory, every subdirectory line
\* precedes every file line, and within each group the names ascend under the
\* collation comparison, whatever the order of the listing.
C2_DirectoriesFirstThenByName ==
    Generated =>
        \A i, j \in itemLines(tree) :
            (i < j /\ siblings(tree, i, j)) =>
                /\ ~(tree[i].icon = FileIcon /\ tree[j].icon = DirIcon)
                /\ tree[i].icon = tree[j].icon
                      => localeCompare(tree[i].text, tree[j].text) < 0

\* the root listing returned a file before a directory and two directories in
\* descending order, and all three are rendered
C2_Witness ==
    /\ Generated
    /\ LET items == disk.dirs[0].items IN
       \E a, b, c \in 1..Len(items) :
          /\ a < b /\ b < c
          /\ ~items[a].isDirectory /\ items[b].isDirectory /\ items[c].isDirectory
          /\ localeCompare(items[b].name, items[c].name) > 0
          /\ \A k \in {a, b, c} : \E i \in itemLines(tree) :
                Len(tree[i].prefix) = 0 /\ tree[i].text = items[k].name

\* C10: in every rendered sibling group exactly the last child carries the
\* last-child connector; every line rendered inside a child directory carries
\* that directory's prefix extended by one four-character segment, blank when
\* the directory was last in its group and a vertical bar otherwise.
C10_ConnectorsAndPrefixes ==
    Generated =>
        \A i \in 1..Len(tree) :
            /\ isItem(tree[i]) =>
                  tree[i].connector =
                      IF \E j \in (i + 1)..Len(tree) : siblings(tree, i, j)
                      THEN MidConnector ELSE LastConnector
            /\ \A k \in 1..Len(tree[i].prefix) : Len(tree[i].prefix[k]) = 4
            /\ IF parentOf(tree, i) = 0 THEN tree[i].prefix = <<>>
               ELSE LET dir == tree[parentOf(tree, i)] IN
                    /\ dir.icon = DirIcon
                    /\ tree[i].prefix =
                          Append(dir.prefix,
                                 IF dir.connector = LastConnector
                                 THEN LastIndent ELSE MidIndent)

\* one tree with a line inside a last child and a line inside a child that
\* is not last, both at least two levels down
C10_Witness ==
    /\ Generated
    /\ \E i, j \in itemLines(tree) :
          /\ Len(tree[i].prefix) >= 2 /\ Last(tree[i].prefix) = LastIndent
          /\ Len(tree[j].prefix) >= 2 /\ Last(tree[j].prefix) = MidIndent
          /\ tree[i].connector # tree[j].connector

\* the structure with every directory below the root that cannot be listed
\* replaced by an empty directory that can
emptied(d) ==
    [dirs |-> [node \in DOMAIN d.dirs |->
                 IF node # 0 /\ ~d.dirs[node].readable
                 THEN [readable |-> TRUE, items |-> <<>>]
                 ELSE d.dirs[node]]]

isSubdirMarker(line) == isMarker(line, CannotRead) /\ Len(line.prefix) >= 1
withoutSubdirMarkers(lines) == SelectSeq(lines, LAMBDA line : ~isSubdirMarker(line))

\* the rendered lines of subdirectories that cannot be listed
unreadableLines(d, lines) ==
    {i \in itemLines(lines) :
        lines[i].icon = DirIcon /\ ~d.dirs[resolve(d, pathOf(lines, i))].readable}

\* C4: a subdirectory that cannot be listed is rendered as its own line
\* followed by exactly one unreadable-directory marker line; generateTree
\* still returns, and every other line is what it would be if the
\* subdirectory could be listed and were empty.
C4_UnreadableSubdirectoryIsLocal ==
    Generated =>
        /\ withoutSubdirMarkers(tree)
              = generateTree(emptied(disk), ignorePatterns, RootPath, <<>>, TRUE, 0)
        /\ \A i \in unreadableLines(disk, tree) :
              /\ i < Len(tree)
              /\ tree[i + 1] = markerLine(nextPrefix(tree[i].prefix,
                                                     tree[i].connector = LastConnector),
                                          CannotRead)
        /\ Cardinality({i \in 1..Len(tree) : isSubdirMarker(tree[i])})
              = Cardinality(unreadableLines(disk, tree))

\* a subdirectory that cannot be listed is rendered between two siblings
C4_Witness ==
    /\ Generated
    /\ \E i \in unreadableLines(disk, tree) :
          /\ \E j \in 1..(i - 1) : siblings(tree, j, i)
          /\ \E j \in (i + 1)..Len(tree) : siblings(tree, i, j)

-----------------------------------------------------------------------------
\* C5 as stated: a failure to list the root directory ends the run with a
\* logged error and a non-zero exit status, and no output file is written.
C5_RootFailureIsFatal ==
    (pc \in {"done", "exited"} /\ ~disk.dirs[0].readable) =>
        /\ pc = "exited"
        /\ exitCode # 0
        /\ log = ErrorMessage
        /\ ~outputFile.exists

\* C5 as amended: a failure to list the root directory is not fatal.
\* generateTree returns the single unreadable-directory marker line, and init
\* writes the output file (the root line, then that marker), logs success and
\* leaves the exit status 0 whenever the write succeeds; the run exits with
\* status 1 and no output file exactly when a file write fails.
C5_RootFailureIsRendered ==
    /\ (Generated /\ ~disk.dirs[0].readable)
          => tree = <<markerLine(<<>>, CannotRead)>>
    /\ pc = "done" =>
          /\ writable
          /\ outputFile = [exists |-> TRUE, readable |-> TRUE,
                           content |-> <<rootLine>> \o tree]
          /\ log = SuccessMessage
          /\ exitCode = 0
    /\ pc = "exited" =>
          /\ ~writable
          /\ ~outputFile.exists
          /\ log = ErrorMessage
          /\ exitCode = 1

\* a finished run over a root that cannot be listed, with its output file
C5_Witness ==
    /\ pc = "done"
    /\ ~disk.dirs[0].readable
    /\ outputFile.exists
    /\ outputFile.content = <<rootLine, markerLine(<<>>, CannotRead)>>

\* C7 as stated: createRegexFromPattern raises no error for any rule, so
\* loadIgnorePatterns yields one predicate per non-blank, non-comment line
\* of the ignore file, and no rule makes other rules be discarded.
C7_OnePredicatePerRuleLine ==
    (pc = "generateTree" /\ ignoreFile.readable) =>
        /\ Len(ignorePatterns) = Len(ruleLines(ignoreFile.content))
        /\ \A i \in 1..Len(ruleLines(ignoreFile.content)) :
              ~createRegexFromPattern(ruleLines(ignoreFile.content)[i]).threw

-----------------------------------------------------------------------------
(* Glob-lite matching, as the rules are meant to be read *)

RECURSIVE globMatch(_, _)
\* '*' stands for any run of characters, '?' for any one character, every
\* other character for itself; the whole name must be matched
globMatch(rule, name) ==
    IF rule = <<>> THEN name = <<>>
    ELSE CASE Head(rule) = "*" ->
                \/ globMatch(Tail(rule), name)
                \/ name # <<>> /\ globMatch(rule, Tail(name))
           [] Head(rule) = "?" ->
                name # <<>> /\ globMatch(Tail(rule), Tail(name))
           [] OTHER ->
                name # <<>> /\ Head(name) = Head(rule)
                /\ globMatch(Tail(rule), Tail(name))

hasNone(s, chars) == \A i \in 1..Len(s) : s[i] \notin chars

Tested == pc = "tested"

\* C6 as stated: a non-empty rule without '.', '*' and '?' matches a name if
\* and only if the name equals the rule, whatever other characters it holds.
C6_LiteralRuleMatchesOnlyItself ==
    (Tested /\ hasNone(mPattern, {".", "*", "?"})) =>
        (mResult <=> mName = mPattern)

\* C8 as stated: for rules of ordinary characters and '.', '*', '?', the rule
\* matches the whole name with '.' standing for itself, '*' for any run of
\* characters and '?' for any one character, and shouldIgnore is true exactly
\* when the rule matches the name in this sense.
C8_GlobLiteSemantics ==
    (Tested /\ hasNone(mPattern, {"+", "["})) =>
        (mResult <=> globMatch(mPattern, mName))

\* what the matcher does keep of both: rules of letters match only
\* themselves, and glob-lite matching holds for names without line terminators
MatcherOnPlainInputs ==
    Tested =>
        /\ hasNone(mPattern, {".", "*", "?", "+", "["})
              => (mResult <=> mName = mPattern)
        /\ (hasNone(mPattern, {"+", "["}) /\ hasNone(mName, LineTerminators))
              => (mResult <=> globMatch(mPattern, mName))

-----------------------------------------------------------------------------
LongChains == {chainDisk(len) : len \in (MaxDepth + 1)..(MaxDepth + 1 + ChainSlack)}

\* C3: the root call has depth 0 and every descent adds 1; no directory is
\* listed at a depth above MaxDepth: a directory reached at depth MaxDepth + 1
\* contributes the depth-limit marker line and nothing else, so a chain of
\* MaxDepth + 1 nested single-child directories renders with the marker as
\* its last line.
C3_DepthCeiling ==
    /\ \A k \in 1..Len(stack) :
          /\ stack[k].depth = k - 1
          /\ stack[k].depth <= MaxDepth + 1
          /\ stack[k].depth = MaxDepth + 1 => stack[k].phase = "enter"
    /\ returned.done =>
          LET lines == returned.value IN
          /\ \A i \in 1..Len(lines) :
                /\ isItem(lines[i]) => Len(lines[i].prefix) <= MaxDepth
                /\ isMarker(lines[i], MaxDepthReached) =>
                      /\ Len(lines[i].prefix) = MaxDepth + 1
                      /\ i > 1
                      /\ lines[i - 1].icon = DirIcon
                      /\ Len(lines[i - 1].prefix) = MaxDepth
                /\ (lines[i].icon = DirIcon /\ Len(lines[i].prefix) = MaxDepth) =>
                      /\ i < Len(lines)
                      /\ isMarker(lines[i + 1], MaxDepthReached)
          /\ (disk \in LongChains /\ ~matchedByRule(ignorePatterns, <<"a">>)) =>
                /\ Len(lines) = MaxDepth + 2
                /\ isMarker(Last(lines), MaxDepthReached)
                /\ \A i \in 1..(MaxDepth + 1) : lines[i].icon = DirIcon

\* the chain of MaxDepth + 1 nested directories, rendered down to the marker
C3_Witness ==
    /\ returned.done
    /\ disk = chainDisk(MaxDepth + 1)
    /\ returned.value # <<>>
    /\ isMarker(Last(returned.value), MaxDepthReached)

\* C9: generateTree returns for every directory structure, deep or cyclic:
\* every chain of calls ends at a directory without subdirectories to
\* descend into, at a list failure or at the depth-limit marker.
C9_GenerateTreeReturns == <>(returned.done)

\* the call over the directory that contains itself has returned, cut by the marker
C9_Witness ==
    /\ returned.done
    /\ disk = loopDisk
    /\ \E i \in 1..Len(returned.value) : isMarker(returned.value[i], MaxDepthReached)

\* the call-by-call walk returns what generateTree computes in one piece,
\* and the path of every call leads to the node listed for it (both compared
\* where the nesting is shallow)
WalkAgreesWithGenerateTree ==
    disk \notin DeepDisks =>
        /\ returned.done =>
              returned.value = generateTree(disk, ignorePatterns, RootPath, <<>>, TRUE, 0)
        /\ \A k \in 1..Len(stack) :
              resolve(disk, stack[k].dirPath.text) = stack[k].dirPath.node

====
